---- MODULE Spec2Model ----
(***************************************************************************)
(* Model of task1.py: the command-line Binance Futures testnet client.     *)
(*                                                                         *)
(* Numbers.  Quantities and prices are fixed-point integers counting       *)
(* 1e-9 units (0.01 is 10000000); a value rounded to 8 fractional digits   *)
(* is a multiple of 10.  Time is in milliseconds; the TWAP interval, the   *)
(* quotient duration / parts, is kept as a reduced fraction of seconds.    *)
(* Text.  A query string is the sequence of its key=value pairs, in the    *)
(* order in which they are joined by "&".                                  *)
(***************************************************************************)
EXTENDS Integers, Sequences, FiniteSets, TLC

VARIABLES
    argv,       \* shape of the command line: "empty", "malformed" or "ok"
    args,       \* the argparse namespace (validate_args rewrites quantity, price)
    pc,         \* position of main()
    exc,        \* the exception in flight ("" when none)
    exc_json,   \* whether the in-flight HTTPError's response body decodes as JSON
    exit_code,  \* process exit status, -1 while the process runs
    exit_via,   \* "return", "sys.exit", "argparse" or "" while running
    stdout,     \* what main() printed: sequence of records
    clock,      \* local clock, ms
    server_ts,  \* server time read by the probe, 0 when none was read
    probe,      \* outcome of the server-time probe, "" before it
    log,        \* observable operations in order: GET, POST, SLEEP
    posts,      \* the signed requests handed to session.post
    twap,       \* fields of the TWAPOrder object
    per_qty,    \* TWAPOrder.run local
    interval,   \* TWAPOrder.run local, <<numerator, denominator>> seconds
    results,    \* TWAPOrder.run local
    i,          \* TWAPOrder.run loop variable
    mappings    \* signing harness: the parameter mappings to be signed

vars == <<argv, args, pc, exc, exc_json, exit_code, exit_via, stdout, clock,
          server_ts, probe, log, posts, twap, per_qty, interval, results, i,
          mappings>>

(***************************************************************************)
(* Bounds of the model.                                                    *)
(***************************************************************************)
MaxParts == 3
MaxParams == 3

(***************************************************************************)
(* Program constants.                                                      *)
(***************************************************************************)
RECV_WINDOW == 5000
ORDER_ENDPOINT == "/fapi/v1/order"
SERVER_TIME == "/fapi/v1/time"
VALID_SIDES == {"BUY", "SELL"}
VALID_ORDER_TYPES == {"MARKET", "LIMIT", "TWAP"}

\* None, and the empty string: both are falsy in the checks of validate_args.
Absent == ""

(***************************************************************************)
(* Arithmetic helpers.                                                     *)
(***************************************************************************)
RECURSIVE Gcd(_, _)
Gcd(a, b) == IF b = 0 THEN a ELSE Gcd(b, a % b)

\* a / b of two integers, b > 0, as a reduced fraction.
Fraction(a, b) == LET g == Gcd(a, b) IN <<a \div g, b \div g>>

Max(a, b) == IF a >= b THEN a ELSE b

\* Mutation of ClampMin1: the floor of the clamp is 0.
ClampMin0(x) == Max(0, x)

\* max(1, int(x)) of TWAPOrder.__init__ (x is already an int: argparse type=int).
ClampMin1(x) == Max(1, x)

\* Mutation of Round8: the quotient is truncated to 8 digits.
Round8Truncated(total, parts) == {10 * (total \div (10 * parts))}

\* round(total / parts, 8): total in 1e-9 units, the result a multiple of 10.
\* Python rounds the binary quotient to the nearest 8-digit decimal; where the
\* decimal quotient lies exactly half way, the binary value decides the side
\* (half-to-even when it is exact), so both neighbours are possible results.
Round8(total, parts) ==
    LET d == 10 * parts
        q == total \div d
        r == total % d
    IN  IF 2 * r < d THEN {10 * q}
        ELSE IF 2 * r > d THEN {10 * (q + 1)}
        ELSE {10 * q, 10 * (q + 1)}

(***************************************************************************)
(* Text helpers.                                                           *)
(***************************************************************************)
\* str.upper() on the tokens the model uses.
Upper(s) ==
    CASE s = "buy" -> "BUY"
      [] s = "sell" -> "SELL"
      [] s = "market" -> "MARKET"
      [] s = "limit" -> "LIMIT"
      [] s = "twap" -> "TWAP"
      [] s = "btcusdt" -> "BTCUSDT"
      [] OTHER -> s

\* urllib.parse.quote_plus on the tokens the model uses: "/" and " " are the
\* characters of these tokens that are not passed through.
QuotePlus(s) ==
    CASE s = "BTC/USDT" -> "BTC%2FUSDT"
      [] s = "GTC " -> "GTC+"
      [] OTHER -> s

\* Position of a parameter name in Python's str ordering (code point order).
KeyRank(k) ==
    CASE k = "price" -> 1
      [] k = "quantity" -> 2
      [] k = "recvWindow" -> 3
      [] k = "side" -> 4
      [] k = "stopPrice" -> 5
      [] k = "symbol" -> 6
      [] k = "timeInForce" -> 7
      [] k = "timestamp" -> 8
      [] k = "type" -> 9

(***************************************************************************)
(* BinanceFuturesClient._post_signed.  A dict is the sequence of its       *)
(* <<key, value>> items in insertion order, keys distinct.                 *)
(***************************************************************************)
HasKey(params, k) == \E n \in 1..Len(params) : params[n][1] = k

\* dict.setdefault(k, v)
SetDefault(params, k, v) ==
    IF HasKey(params, k) THEN params ELSE Append(params, <<k, v>>)

\* Mutation of SortedItems: the items stay in insertion order.
SortedItemsAsInserted(params) == params

\* sorted(params.items()): the keys of a dict are distinct, so the item at
\* position n is the one with exactly n - 1 smaller keys.
SortedItems(params) ==
    [n \in 1..Len(params) |->
        params[CHOOSE m \in 1..Len(params) :
                  Cardinality({j \in 1..Len(params) :
                      KeyRank(params[j][1]) < KeyRank(params[m][1])}) = n - 1]]

\* urlencode(items): every key and value quoted, joined in the order given.
UrlEncode(items) ==
    [n \in 1..Len(items) |-> <<QuotePlus(items[n][1]), QuotePlus(items[n][2])>>]

\* hmac.new(key, msg, sha256).hexdigest(), idealised as a collision-free
\* keyed digest: the term built from the key and the message.
HmacSha256Hex(key, msg) == <<"hmac-sha256", key, msg>>

\* The request _post_signed hands to session.post.  now is int(time.time()*1000).
PostSigned(api_secret, path, params, now) ==
    LET p1 == SetDefault(params, "timestamp", ToString(now))
        p2 == SetDefault(p1, "recvWindow", ToString(RECV_WINDOW))
        query_string == UrlEncode(SortedItems(p2))
        signature == HmacSha256Hex(api_secret, query_string)
    IN  [path |-> path,
         query_string |-> query_string,
         signature |-> signature,
         signed_qs |-> Append(query_string, <<"signature", signature>>)]

\* The default None of place_order's optional numeric parameters.
NoneNum == -1

\* The payload dict place_order builds (stop_price is never passed by main).
PlaceOrderPayload(symbol, side, order_type, quantity, price, time_in_force) ==
    LET base == << <<"symbol", Upper(symbol)>>, <<"side", Upper(side)>>,
                   <<"type", Upper(order_type)>> >>
        withQty == IF quantity # NoneNum
                   THEN Append(base, <<"quantity", ToString(quantity)>>) ELSE base
        withPrice == IF price # NoneNum
                     THEN Append(withQty, <<"price", ToString(price)>>) ELSE withQty
    IN  IF time_in_force # Absent
        THEN Append(withPrice, <<"timeInForce", time_in_force>>) ELSE withPrice

(***************************************************************************)
(* Input validation.                                                       *)
(***************************************************************************)
\* A raw command-line number: given or not, parsable by float() or not, value.
RawNum(given, numeric, v) == [given |-> given, numeric |-> numeric, v |-> v]

\* positive_float: "" when x is accepted, else the ArgumentTypeError message.
PositiveFloat(x) ==
    IF ~x.numeric THEN "Not a valid number"
    ELSE IF x.v <= 0 THEN "Value must be positive"
    ELSE ""

\* Mutation of ValidateArgs: the LIMIT price checks are missing.
ValidateArgsNoPriceCheck(a) ==
    IF a.run_tests THEN ""
    ELSE IF a.api_key = Absent \/ a.api_secret = Absent \/ a.symbol = Absent
            \/ a.side = Absent \/ a.order_type = Absent
         THEN "Missing required arguments"
    ELSE IF a.side \notin VALID_SIDES THEN "Invalid side"
    ELSE IF a.order_type \notin VALID_ORDER_TYPES THEN "Invalid order-type"
    ELSE IF ~a.quantity.given
         THEN "--quantity is required for MARKET, LIMIT, and TWAP orders"
    ELSE PositiveFloat(a.quantity)

\* validate_args: "" when it returns, else the message of the ValueError.
ValidateArgs(a) ==
    IF a.run_tests THEN ""
    ELSE IF a.api_key = Absent \/ a.api_secret = Absent \/ a.symbol = Absent
            \/ a.side = Absent \/ a.order_type = Absent
         THEN "Missing required arguments"
    ELSE IF a.side \notin VALID_SIDES THEN "Invalid side"
    ELSE IF a.order_type \notin VALID_ORDER_TYPES THEN "Invalid order-type"
    ELSE IF a.order_type \in {"MARKET", "LIMIT", "TWAP"} /\ ~a.quantity.given
         THEN "--quantity is required for MARKET, LIMIT, and TWAP orders"
    ELSE IF a.order_type \in {"MARKET", "LIMIT", "TWAP"}
            /\ PositiveFloat(a.quantity) # ""
         THEN PositiveFloat(a.quantity)
    ELSE IF a.order_type = "LIMIT" /\ ~a.price.given
         THEN "--price is required for LIMIT orders"
    ELSE IF a.order_type = "LIMIT" /\ PositiveFloat(a.price) # ""
         THEN PositiveFloat(a.price)
    ELSE ""

(***************************************************************************)
(* Exceptions.  Kinds: "HTTPError" (raise_for_status), "ConnectionError"   *)
(* and "Timeout" (transport, no response), "JSONDecodeError" (r.json()),   *)
(* "ZeroDivisionError", "SystemExit" (sys.exit).                           *)
(***************************************************************************)
\* An `except Exception` clause: everything but the BaseException-only kinds.
ExceptException(kind) == kind \notin {"SystemExit", "KeyboardInterrupt"}

\* An `except requests.HTTPError` clause.
ExceptHTTPError(kind) == kind = "HTTPError"

\* Response.raise_for_status() raises for 4xx and 5xx.
RaisesForStatus(status_code) == status_code >= 400 /\ status_code < 600

\* Mutation of ProbeHandled: the clause names requests.HTTPError.
ProbeHandledHTTPOnly(kind) == ExceptHTTPError(kind)

\* The handler of the server-time probe in main.
ProbeHandled(kind) == ExceptException(kind)

\* Mutation of SliceHandled: the clause names requests.HTTPError.
SliceHandledHTTPOnly(kind) == ExceptHTTPError(kind)

\* The handler around raise_for_status / json in TWAPOrder.run.
SliceHandled(kind) == ExceptException(kind)

\* Mutation of MarketBodyHandled: resp.json() is not guarded.
MarketBodyUnhandled(kind) == FALSE

\* The handler around resp.json() inside main's HTTPError handler.
MarketBodyHandled(kind) == ExceptException(kind)

\* The handler around r.json() inside the LIMIT branch's HTTPError handler.
LimitBodyHandled(kind) == ExceptException(kind)

(***************************************************************************)
(* Command lines.                                                          *)
(***************************************************************************)
Quantities == {5, 25, 10000000}
RawQuantities ==
    {RawNum(FALSE, FALSE, 0), RawNum(TRUE, FALSE, 0), RawNum(TRUE, TRUE, -5),
     RawNum(TRUE, TRUE, 0)} \cup {RawNum(TRUE, TRUE, v) : v \in Quantities}
RawPrices ==
    {RawNum(FALSE, FALSE, 0), RawNum(TRUE, TRUE, 0), RawNum(TRUE, TRUE, 1500000000)}
Durations == {-1, 0, 1, 30}

\* The namespace build_parser's parser produces (defaults filled in).
Namespace(rt, key, secret, sym, side, ot, qty, price, parts, duration) ==
    [run_tests |-> rt, api_key |-> key, api_secret |-> secret, symbol |-> sym,
     side |-> side, order_type |-> ot, quantity |-> qty, price |-> price,
     time_in_force |-> "GTC", twap_parts |-> parts, twap_duration |-> duration]

\* The argparse defaults of --twap-parts and --twap-duration.
DefaultParts == 5
DefaultDuration == 60

\* Command lines of every order type but TWAP; the TWAP options keep their defaults.
OtherArgs ==
    {Namespace(rt, key, secret, sym, side, ot, qty, price, DefaultParts, DefaultDuration) :
        rt \in BOOLEAN, key \in {Absent, "k"}, secret \in {Absent, "s"},
        sym \in {Absent, "BTCUSDT"}, side \in {Absent, "BUY", "SELL", "HOLD"},
        ot \in {Absent, "MARKET", "LIMIT", "STOP"},
        qty \in RawQuantities, price \in RawPrices}

\* TWAP command lines.
TwapArgs ==
    {Namespace(FALSE, key, "s", "BTCUSDT", side, "TWAP", qty, RawNum(FALSE, FALSE, 0),
               parts, duration) :
        key \in {Absent, "k"}, side \in {"BUY", "SELL", "HOLD"},
        qty \in RawQuantities, parts \in (-1)..MaxParts, duration \in Durations}

\* args when parse_args returned None or argparse exited.
NoArgs ==
    Namespace(FALSE, Absent, Absent, Absent, Absent, Absent, RawNum(FALSE, FALSE, 0),
              RawNum(FALSE, FALSE, 0), DefaultParts, DefaultDuration)

\* The TWAPOrder object before it is constructed.
NoTwap == [symbol |-> Absent, side |-> Absent, total_qty |-> 0, parts |-> 0, duration |-> 0]

\* Responses of the exchange to one request: no response at all (transport
\* error), or a response with a status code and a body that decodes or not.
Responses ==
    {[kind |-> "transport", status_code |-> 0, json |-> FALSE]}
    \cup {[kind |-> "response", status_code |-> sc, json |-> j] :
            sc \in {200, 400, 500}, j \in BOOLEAN}

\* Outcomes of the server-time probe.
ProbeOutcomes == {"ok", "timeout", "connection", "http_error", "bad_json"}

\* The exception server_time() raises for an outcome ("" for none).
ProbeRaises(outcome) ==
    CASE outcome = "ok" -> ""
      [] outcome = "timeout" -> "Timeout"
      [] outcome = "connection" -> "ConnectionError"
      [] outcome = "http_error" -> "HTTPError"
      [] outcome = "bad_json" -> "JSONDecodeError"

\* The response slot of a log entry that has no response.
NoResp == [kind |-> "none", status_code |-> 0, json |-> FALSE]

\* Entries of the operation log: the operation, the TWAP slice it belongs to
\* (-1 outside TWAP), the length of a sleep, the local time it was issued at,
\* and what the exchange answered.
LogGet(at) ==
    [op |-> "GET", path |-> SERVER_TIME, slice |-> -1, secs |-> <<0, 1>>, at |-> at,
     resp |-> NoResp]
LogPost(slice, at, resp) ==
    [op |-> "POST", path |-> ORDER_ENDPOINT, slice |-> slice, secs |-> <<0, 1>>,
     at |-> at, resp |-> resp]
LogSleep(slice, secs, at) ==
    [op |-> "SLEEP", path |-> "", slice |-> slice, secs |-> secs, at |-> at,
     resp |-> NoResp]

Init ==
    /\ argv \in {"empty", "malformed", "ok"}
    /\ args \in IF argv = "ok" THEN OtherArgs \cup TwapArgs ELSE {NoArgs}
    /\ pc = "parse"
    /\ exc = ""
    /\ exc_json = FALSE
    /\ exit_code = -1
    /\ exit_via = ""
    /\ stdout = <<>>
    /\ clock = 1000
    /\ server_ts = 0
    /\ probe = ""
    /\ log = <<>>
    /\ posts = <<>>
    /\ twap = NoTwap
    /\ per_qty = 0
    /\ interval = <<0, 1>>
    /\ results = <<>>
    /\ i = 0
    /\ mappings = <<>>

(***************************************************************************)
(* Steps shared by the actions.                                            *)
(***************************************************************************)
\* The process ends with the given status.
Exit(code, via) ==
    /\ pc' = "done"
    /\ exit_code' = code
    /\ exit_via' = via

\* An exception leaves the code of the try block of main (lines 365-400).
Raise(kind, body_json) ==
    /\ pc' = "except"
    /\ exc' = kind
    /\ exc_json' = body_json
    /\ UNCHANGED <<exit_code, exit_via>>

\* place_order: the signed request is handed to session.post.
Post(payload, slice, resp) ==
    /\ posts' = Append(posts, PostSigned(args.api_secret, ORDER_ENDPOINT, payload, clock))
    /\ log' = Append(log, LogPost(slice, clock, resp))
    /\ clock' = clock + 1

\* What r.raise_for_status(); r.json() raises on a response ("" for nothing).
DecodeRaises(resp) ==
    IF RaisesForStatus(resp.status_code) THEN "HTTPError"
    ELSE IF ~resp.json THEN "JSONDecodeError"
    ELSE ""

\* The decoded body of the response to the n-th order request.
Body(n) == [tag |-> "data", error |-> "", status_code |-> 200, orderId |-> n]

\* The try/except of TWAPOrder.run on a response: the entry appended to
\* results, or tag "raise" when the exception leaves the handler.
SliceOutcome(resp, n) ==
    LET raised == DecodeRaises(resp)
    IN  IF raised = "" THEN Body(n)
        ELSE IF SliceHandled(raised)
             THEN [tag |-> "error", error |-> raised,
                   status_code |-> resp.status_code, orderId |-> 0]
             ELSE [tag |-> "raise", error |-> raised,
                   status_code |-> resp.status_code, orderId |-> 0]

\* The internal parsing tests of run_internal_tests that reach validate_args,
\* with expect_error.
TestVectors ==
    { <<Namespace(FALSE, "k", "s", "BTCUSDT", "BUY", "MARKET", RawNum(TRUE, TRUE, 1000000),
                  RawNum(FALSE, FALSE, 0), DefaultParts, DefaultDuration), FALSE>>,
      <<Namespace(FALSE, "k", "s", "BTCUSDT", "BUY", "MARKET", RawNum(FALSE, FALSE, 0),
                  RawNum(FALSE, FALSE, 0), DefaultParts, DefaultDuration), TRUE>>,
      <<Namespace(FALSE, "k", "s", "BTCUSDT", "SELL", "LIMIT", RawNum(TRUE, TRUE, 1000000000),
                  RawNum(FALSE, FALSE, 0), DefaultParts, DefaultDuration), TRUE>>,
      <<Namespace(FALSE, "k", "s", "BTCUSDT", "SELL", "TWAP", RawNum(TRUE, TRUE, 10000000),
                  RawNum(FALSE, FALSE, 0), 3, 30), FALSE>> }

(***************************************************************************)
(* main().                                                                 *)
(***************************************************************************)
\* parse_args and the two early returns of main.
MainParse ==
    /\ pc = "parse"
    /\ IF argv = "empty" THEN Exit(0, "return")
       ELSE IF argv = "malformed" THEN Exit(2, "argparse")
       ELSE /\ pc' = IF args.run_tests THEN "tests" ELSE "validate"
            /\ UNCHANGED <<exit_code, exit_via>>
    /\ UNCHANGED <<argv, args, exc, exc_json, stdout, clock, server_ts, probe, log,
                   posts, twap, per_qty, interval, results, i, mappings>>

\* --run-tests: run_internal_tests, then return.
MainRunTests ==
    /\ pc = "tests"
    /\ LET all_ok == \A t \in TestVectors : (ValidateArgs(t[1]) # "") = t[2]
       IN  stdout' = Append(stdout, IF all_ok THEN "All internal parsing tests PASSED"
                                    ELSE "Some internal parsing tests FAILED")
    /\ Exit(0, "return")
    /\ UNCHANGED <<argv, args, exc, exc_json, clock, server_ts, probe, log,
                   posts, twap, per_qty, interval, results, i, mappings>>

\* validate_args, and sys.exit(1) on its ValueError.
MainValidate ==
    /\ pc = "validate"
    /\ IF ValidateArgs(args) # "" THEN Exit(1, "sys.exit")
       ELSE /\ pc' = "probe"
            /\ UNCHANGED <<exit_code, exit_via>>
    /\ UNCHANGED <<argv, args, exc, exc_json, stdout, clock, server_ts, probe, log,
                   posts, twap, per_qty, interval, results, i, mappings>>

\* The server-time probe and its handler.
MainServerTime ==
    /\ pc = "probe"
    /\ \E outcome \in ProbeOutcomes :
        /\ probe' = outcome
        /\ log' = Append(log, LogGet(clock))
        /\ clock' = clock + 1
        /\ server_ts' = IF outcome = "ok" THEN clock + 250 ELSE server_ts
        /\ IF ProbeRaises(outcome) = "" \/ ProbeHandled(ProbeRaises(outcome))
           THEN /\ pc' = "dispatch"
                /\ UNCHANGED <<exit_code, exit_via, exc>>
           ELSE /\ exc' = ProbeRaises(outcome)
                /\ Exit(1, "uncaught")
    /\ UNCHANGED <<argv, args, exc_json, stdout, posts, twap, per_qty, interval,
                   results, i, mappings>>

\* The MARKET branch.
MainMarket ==
    /\ pc = "dispatch"
    /\ args.order_type = "MARKET"
    /\ \E resp \in Responses :
        /\ Post(PlaceOrderPayload(args.symbol, args.side, "MARKET", args.quantity.v,
                                  NoneNum, Absent), -1, resp)
        /\ IF resp.kind = "transport" THEN Raise("ConnectionError", FALSE) /\ UNCHANGED stdout
           ELSE IF DecodeRaises(resp) # ""
                THEN Raise(DecodeRaises(resp), resp.json) /\ UNCHANGED stdout
           ELSE /\ stdout' = Append(stdout, "Order executed")
                /\ Exit(0, "return")
                /\ UNCHANGED <<exc, exc_json>>
    /\ UNCHANGED <<argv, args, server_ts, probe, twap, per_qty, interval, results, i,
                   mappings>>

\* The LIMIT branch, with its own HTTPError handler.
MainLimit ==
    /\ pc = "dispatch"
    /\ args.order_type = "LIMIT"
    /\ \E resp \in Responses :
        /\ Post(PlaceOrderPayload(args.symbol, args.side, "LIMIT", args.quantity.v,
                                  args.price.v, args.time_in_force), -1, resp)
        /\ IF resp.kind = "transport" THEN Raise("ConnectionError", FALSE) /\ UNCHANGED stdout
           ELSE IF ExceptHTTPError(DecodeRaises(resp))
                THEN /\ IF resp.json \/ LimitBodyHandled("JSONDecodeError")
                        THEN Raise("SystemExit", resp.json)
                        ELSE Raise("JSONDecodeError", resp.json)
                     /\ UNCHANGED stdout
           ELSE IF DecodeRaises(resp) # ""
                THEN Raise(DecodeRaises(resp), resp.json) /\ UNCHANGED stdout
           ELSE /\ stdout' = Append(stdout, "Order placed")
                /\ Exit(0, "return")
                /\ UNCHANGED <<exc, exc_json>>
    /\ UNCHANGED <<argv, args, server_ts, probe, twap, per_qty, interval, results, i,
                   mappings>>

\* The TWAP branch up to the loop of TWAPOrder.run (TWAPOrder.__init__ and
\* lines 160-163), and the final else branch.
MainTwap ==
    /\ pc = "dispatch"
    /\ args.order_type \notin {"MARKET", "LIMIT"}
    /\ IF args.order_type = "TWAP"
       THEN LET parts == ClampMin1(args.twap_parts)
                duration == ClampMin1(args.twap_duration)
            IN  /\ twap' = [symbol |-> args.symbol, side |-> args.side,
                            total_qty |-> args.quantity.v, parts |-> parts,
                            duration |-> duration]
                /\ IF parts = 0
                   THEN /\ Raise("ZeroDivisionError", FALSE)
                        /\ UNCHANGED <<per_qty, interval>>
                   ELSE /\ per_qty' \in Round8(args.quantity.v, parts)
                        /\ interval' = Fraction(duration, parts)
                        /\ pc' = IF parts > 0 THEN "twap_place" ELSE "twap_return"
                        /\ UNCHANGED <<exc, exc_json, exit_code, exit_via>>
       ELSE /\ Raise("SystemExit", FALSE)
            /\ UNCHANGED <<twap, per_qty, interval>>
    /\ results' = <<>>
    /\ i' = 0
    /\ UNCHANGED <<argv, args, stdout, clock, server_ts, probe, log, posts, mappings>>

\* One pass of the loop body of TWAPOrder.run up to the sleep.
TwapPlace ==
    /\ pc = "twap_place"
    /\ \E resp \in Responses :
        /\ Post(PlaceOrderPayload(twap.symbol, twap.side, "MARKET", per_qty, NoneNum,
                                  Absent), i, resp)
        /\ IF resp.kind = "transport"
           THEN Raise("ConnectionError", FALSE) /\ UNCHANGED results
           ELSE LET outcome == SliceOutcome(resp, Len(posts) + 1)
                IN  IF outcome.tag = "raise"
                    THEN Raise(outcome.error, resp.json) /\ UNCHANGED results
                    ELSE /\ results' = Append(results, outcome)
                         /\ pc' = IF i < twap.parts - 1 THEN "twap_sleep" ELSE "twap_return"
                         /\ UNCHANGED <<exc, exc_json, exit_code, exit_via>>
    /\ UNCHANGED <<argv, args, stdout, server_ts, probe, twap, per_qty, interval, i,
                   mappings>>

\* time.sleep(interval) and the next value of the loop variable.
TwapSleep ==
    /\ pc = "twap_sleep"
    /\ log' = Append(log, LogSleep(i, interval, clock))
    /\ clock' = clock + (1000 * interval[1]) \div interval[2]
    /\ i' = i + 1
    /\ pc' = "twap_place"
    /\ UNCHANGED <<argv, args, exc, exc_json, exit_code, exit_via, stdout, server_ts,
                   probe, posts, twap, per_qty, interval, results, mappings>>

\* run() returns; main prints the results and returns.
TwapReturn ==
    /\ pc = "twap_return"
    /\ stdout' = Append(stdout, "TWAP results")
    /\ Exit(0, "return")
    /\ UNCHANGED <<argv, args, exc, exc_json, clock, server_ts, probe, log, posts,
                   twap, per_qty, interval, results, i, mappings>>

\* main's `except requests.HTTPError` clause.
MainExceptHTTPError ==
    /\ pc = "except"
    /\ ExceptHTTPError(exc)
    /\ IF exc_json
       THEN stdout' = Append(stdout, "Error placing order") /\ Exit(1, "sys.exit")
       ELSE /\ UNCHANGED stdout
            /\ IF MarketBodyHandled("JSONDecodeError") THEN Exit(1, "sys.exit")
               ELSE Exit(1, "uncaught")
    /\ UNCHANGED <<argv, args, exc, exc_json, clock, server_ts, probe, log, posts,
                   twap, per_qty, interval, results, i, mappings>>

\* main's `except Exception` clause.
MainExceptException ==
    /\ pc = "except"
    /\ ~ExceptHTTPError(exc)
    /\ ExceptException(exc)
    /\ Exit(1, "sys.exit")
    /\ UNCHANGED <<argv, args, exc, exc_json, stdout, clock, server_ts, probe, log,
                   posts, twap, per_qty, interval, results, i, mappings>>

\* A SystemExit raised inside the try block passes both clauses.
MainSystemExit ==
    /\ pc = "except"
    /\ ~ExceptHTTPError(exc)
    /\ ~ExceptException(exc)
    /\ Exit(1, "sys.exit")
    /\ UNCHANGED <<argv, args, exc, exc_json, stdout, clock, server_ts, probe, log,
                   posts, twap, per_qty, interval, results, i, mappings>>

Next ==
    \/ MainParse
    \/ MainRunTests
    \/ MainValidate
    \/ MainServerTime
    \/ MainMarket
    \/ MainLimit
    \/ MainTwap
    \/ TwapPlace
    \/ TwapSleep
    \/ TwapReturn
    \/ MainExceptHTTPError
    \/ MainExceptException
    \/ MainSystemExit

Spec == Init /\ [][Next]_vars

(***************************************************************************)
(* Signing harness: _post_signed applied, at one reading of the clock and  *)
(* with one secret, to two parameter mappings that hold the same items in  *)
(* different insertion orders.                                             *)
(***************************************************************************)
Items ==
    {<<"symbol", "BTCUSDT">>, <<"symbol", "BTC/USDT">>, <<"side", "BUY">>,
     <<"side", "SELL">>, <<"type", "MARKET">>, <<"quantity", "1000000">>,
     <<"price", "15">>, <<"timestamp", "1699">>, <<"recvWindow", "9000">>}

\* The dicts of at most MaxParams items.
Dicts ==
    {d \in UNION {[1..n -> Items] : n \in 1..MaxParams} :
        \A m, n \in 1..Len(d) : m # n => d[m][1] # d[n][1]}

\* The same items in every insertion order.
Reorderings(d) == {[n \in 1..Len(d) |-> d[p[n]]] : p \in Permutations(1..Len(d))}

InitSign ==
    /\ argv = "ok"
    /\ \E secret \in {"s", "t"} :
        args = Namespace(FALSE, "k", secret, "BTCUSDT", "BUY", "MARKET",
                         RawNum(TRUE, TRUE, 1000000), RawNum(FALSE, FALSE, 0),
                         DefaultParts, DefaultDuration)
    /\ pc = "sign"
    /\ exc = ""
    /\ exc_json = FALSE
    /\ exit_code = -1
    /\ exit_via = ""
    /\ stdout = <<>>
    /\ clock = 1000
    /\ server_ts = 0
    /\ probe = ""
    /\ log = <<>>
    /\ posts = <<>>
    /\ twap = NoTwap
    /\ per_qty = 0
    /\ interval = <<0, 1>>
    /\ results = <<>>
    /\ i = 0
    /\ mappings \in UNION {{<<d, e>> : e \in Reorderings(d)} : d \in Dicts}

\* _post_signed on the next mapping (lines 87-93; the request is not sent).
HarnessSign ==
    /\ pc = "sign"
    /\ posts' = Append(posts, PostSigned(args.api_secret, ORDER_ENDPOINT,
                                         mappings[Len(posts) + 1], clock))
    /\ pc' = IF Len(posts) + 1 = Len(mappings) THEN "signed" ELSE "sign"
    /\ UNCHANGED <<argv, args, exc, exc_json, exit_code, exit_via, stdout, clock,
                   server_ts, probe, log, twap, per_qty, interval, results, i, mappings>>

NextSign == HarnessSign

SpecSign == InitSign /\ [][NextSign]_vars

(***************************************************************************)
(* State functions used by the properties.                                 *)
(***************************************************************************)
Range(f) == {f[n] : n \in DOMAIN f}

IsPost(e) == e.op = "POST"
IsSleep(e) == e.op = "SLEEP"

\* The order requests, and the sleeps, in the order they happened.
PostLog == SelectSeq(log, IsPost)
SleepLog == SelectSeq(log, IsSleep)

\* The log after the server-time probe.
OrderLog == IF log = <<>> THEN <<>> ELSE Tail(log)

\* What a log entry did, without the time and the answer.
Shape(e) == <<e.op, e.slice, e.secs>>
Shapes(l) == [n \in 1..Len(l) |-> Shape(l[n])]

\* A complete TWAP run of P slices spaced iv seconds: P orders, a sleep of
\* iv after each but the last.
TwapSchedule(P, iv) ==
    [n \in 1..(2 * P - 1) |->
        IF n % 2 = 1 THEN <<"POST", (n - 1) \div 2, <<0, 1>>>>
        ELSE <<"SLEEP", (n \div 2) - 1, iv>>]

IsPrefix(s, t) == Len(s) <= Len(t) /\ \A n \in 1..Len(s) : s[n] = t[n]

\* The order placement got no success: no response, or an error status.
PlacementFailed(resp) == resp.kind = "transport" \/ resp.status_code >= 400

\* A response whose body main or run can use.
Usable(resp) == resp.kind = "response" /\ resp.status_code < 400 /\ resp.json

\* The TWAPOrder object exists.
TwapStarted == twap # NoTwap

\* A caller-supplied count with values below 1 replaced by 1.
AtLeast1(x) == IF x <= 0 THEN 1 ELSE x

\* Abs(x)
Abs(x) == IF x < 0 THEN -x ELSE x

(***************************************************************************)
(* Properties.                                                             *)
(***************************************************************************)

\* C1: TWAPOrder.run never raises and never stops early, whatever slices
\* fail and however (error response or transport error): it attempts every
\* slice 0..parts-1 and returns exactly parts outcomes, the outcome at
\* position k being the payload or the captured failure of slice k.
C1_RunAttemptsEverySlice ==
    TwapStarted =>
        /\ pc # "except"
        /\ pc = "done" =>
            /\ Len(results) = twap.parts
            /\ Len(PostLog) = twap.parts
            /\ \A k \in 1..Len(PostLog) :
                /\ PostLog[k].slice = k - 1
                /\ k <= Len(results)
                /\ results[k].tag = IF Usable(PostLog[k].resp) THEN "data" ELSE "error"

\* C2: in the TWAP flow of main, once validation has passed, the process
\* exits successfully after printing the outcomes, whatever slices failed
\* and however.
C2_TwapExitsSuccessfully ==
    (args.order_type = "TWAP" /\ log # <<>> /\ pc = "done") =>
        /\ exit_code = 0
        /\ exit_via = "return"
        /\ stdout = <<"TWAP results">>

\* C3: a TWAP run with clamped part count P makes exactly P-1 suspensions
\* of duration/P seconds each, one between the placements of slices k and
\* k+1 for every k < P-1 whether slice k failed or not, none after slice P-1.
C3_SleepSchedule ==
    (TwapStarted /\ pc = "done") =>
        /\ Len(SleepLog) = twap.parts - 1
        /\ Shapes(OrderLog) = TwapSchedule(twap.parts, Fraction(twap.duration, twap.parts))

\* C4: a TWAP run given parts <= 0 or duration <= 0 behaves as the run with
\* that value replaced by 1: the object holds the replaced values, nothing
\* divides by zero, every child order carries total/parts' rounded to 8
\* digits, the orders and sleeps follow the schedule of parts' slices spaced
\* duration'/parts' seconds, complete when run returns; and the run ends,
\* since the loop variable stays below parts', never decreases and grows
\* with every sleep, and the loop is left after the order of slice parts'-1.
C4_ClampedRunState ==
    (TwapStarted /\ (args.twap_parts <= 0 \/ args.twap_duration <= 0)) =>
        LET P == AtLeast1(args.twap_parts)
            D == AtLeast1(args.twap_duration)
        IN  /\ twap.parts = P
            /\ twap.duration = D
            /\ exc # "ZeroDivisionError"
            /\ pc \in {"twap_place", "twap_sleep", "twap_return"} =>
                /\ per_qty \in Round8(args.quantity.v, P)
                /\ interval = Fraction(D, P)
            /\ i < P
            /\ pc = "twap_sleep" => i < P - 1
            /\ \A k \in 1..Len(posts) :
                <<"quantity", ToString(per_qty)>> \in Range(posts[k].query_string)
            /\ IsPrefix(Shapes(OrderLog), TwapSchedule(P, Fraction(D, P)))
            /\ pc = "twap_return" => Shapes(OrderLog) = TwapSchedule(P, Fraction(D, P))

C4_ClampedRun ==
    /\ []C4_ClampedRunState
    /\ [][(TwapStarted /\ (args.twap_parts <= 0 \/ args.twap_duration <= 0)) =>
            /\ i' >= i
            /\ pc = "twap_place" => pc' \in {"twap_sleep", "twap_return", "except"}
            /\ pc = "twap_sleep" => (i' = i + 1 /\ pc' = "twap_place")
            /\ pc \in {"twap_return", "except"} => pc' = "done"]_vars

\* C4 witness: the run given parts = 0 and duration = 0 has returned after
\* its one child order.
C4_Witness ==
    /\ args.twap_parts = 0
    /\ args.twap_duration = 0
    /\ TwapStarted
    /\ pc = "done"
    /\ exit_code = 0
    /\ Len(results) = 1
    /\ SleepLog = <<>>

\* C5: in the MARKET and LIMIT flows every failed placement (an error status
\* with a decodable or an undecodable body, or a transport error) ends in
\* sys.exit(1): no other exception ends the process, and it does not exit 0.
C5_SingleOrderFailureExits1 ==
    (args.order_type \in {"MARKET", "LIMIT"} /\ pc = "done" /\ PostLog # <<>>
        /\ PlacementFailed(PostLog[1].resp)) =>
        /\ exit_code = 1
        /\ exit_via = "sys.exit"

\* C5 witness: a MARKET order answered by an error status with an
\* undecodable body, the process over.
C5_Witness ==
    /\ args.order_type = "MARKET"
    /\ pc = "done"
    /\ PostLog # <<>>
    /\ PostLog[1].resp.status_code = 500
    /\ ~PostLog[1].resp.json
    /\ exit_code = 1

\* The arguments validation accepts, in the words of the claim: every
\* required argument present, a valid side and order type, a positive
\* quantity, and for LIMIT a positive price.
WellFormed(a) ==
    /\ a.api_key # Absent /\ a.api_secret # Absent /\ a.symbol # Absent
    /\ a.side \in {"BUY", "SELL"}
    /\ a.order_type \in {"MARKET", "LIMIT", "TWAP"}
    /\ a.quantity.given /\ a.quantity.numeric /\ a.quantity.v > 0
    /\ a.order_type = "LIMIT" => (a.price.given /\ a.price.numeric /\ a.price.v > 0)

\* C6: arguments that fail validation are rejected with a non-zero exit
\* before any network call: once validate_args has run on them the process
\* is over with status 1 and no GET or POST was made, and no state holds a
\* network call made for arguments validation does not accept.
C6_RejectedBeforeNetwork ==
    /\ (argv = "ok" /\ ~args.run_tests /\ ~WellFormed(args) /\ pc \notin {"parse", "validate"}) =>
        (pc = "done" /\ exit_code = 1 /\ exit_via = "sys.exit" /\ log = <<>> /\ posts = <<>>)
    /\ (log # <<>> \/ posts # <<>>) =>
        (argv = "ok" /\ ~args.run_tests /\ WellFormed(args))

\* C6 witness: a LIMIT order without price, rejected.
C6_Witness ==
    /\ argv = "ok"
    /\ ~args.run_tests
    /\ args.order_type = "LIMIT"
    /\ args.quantity.given /\ args.quantity.v > 0
    /\ ~args.price.given
    /\ args.api_key # Absent /\ args.api_secret # Absent /\ args.symbol # Absent
    /\ args.side = "SELL"
    /\ pc = "done"
    /\ exit_code = 1
    /\ log = <<>>

\* C7: a failed server-time probe is not fatal.  The probe step, whatever
\* its outcome, leaves main at the order dispatch with no exception, no
\* exit status and the arguments as they were; after a failed probe no
\* uncaught exception ends the process, the process does not end before an
\* order request was made, and every order request carries the local clock
\* reading as its timestamp.
C7_ProbeFailureNonFatal ==
    /\ [][pc = "probe" =>
            /\ pc' = "dispatch"
            /\ exc' = ""
            /\ exit_code' = -1
            /\ exit_via' = ""
            /\ args' = args
            /\ posts' = posts
            /\ stdout' = stdout]_vars
    /\ [](probe \notin {"", "ok"} =>
            /\ exit_via # "uncaught"
            /\ server_ts = 0
            /\ pc = "done" => posts # <<>>
            /\ Len(PostLog) = Len(posts)
            /\ \A k \in 1..Len(posts) :
                <<"timestamp", ToString(PostLog[k].at)>> \in Range(posts[k].query_string))

\* C7 witness: the probe timed out and the MARKET order went through.
C7_Witness ==
    /\ probe = "timeout"
    /\ args.order_type = "MARKET"
    /\ pc = "done"
    /\ exit_code = 0
    /\ Len(posts) = 1
    /\ stdout = <<"Order executed">>

\* The sequence is sorted by parameter name, names distinct.
SortedByKey(qs) == \A m, n \in 1..Len(qs) : m < n => KeyRank(qs[m][1]) < KeyRank(qs[n][1])

\* C8: two mappings with the same items in different insertion orders, signed
\* with the same secret at the same time, give the same canonical query
\* string, sorted by key, and the same signature; the signature is computed
\* over the query string, which holds no signature parameter, and is
\* appended after it.
C8_SigningOrderIndependent ==
    /\ \A k \in 1..Len(posts) :
        /\ SortedByKey(posts[k].query_string)
        /\ \A n \in 1..Len(posts[k].query_string) :
            posts[k].query_string[n][1] # "signature"
        /\ posts[k].signature = HmacSha256Hex(args.api_secret, posts[k].query_string)
        /\ posts[k].signed_qs =
            Append(posts[k].query_string, <<"signature", posts[k].signature>>)
    /\ pc = "signed" =>
        /\ posts[1].query_string = posts[2].query_string
        /\ posts[1].signature = posts[2].signature
        /\ posts[1].signed_qs = posts[2].signed_qs

\* C8 witness: two different insertion orders of three items were signed.
C8_Witness ==
    /\ pc = "signed"
    /\ Len(mappings[1]) = 3
    /\ mappings[1] # mappings[2]
    /\ mappings[1][1] = mappings[2][3]

C10_SliceOutcomeRecorded ==
    TwapStarted =>
        LET answered == SelectSeq(PostLog, LAMBDA e : e.resp.kind = "response")
        IN  /\ Len(results) = Len(answered)
            /\ \A k \in 1..Len(results) :
                LET resp == answered[k].resp
                IN  /\ results[k].tag = "data" <=> (resp.status_code < 400 /\ resp.json)
                    /\ results[k].tag = "data" => results[k] = Body(k)
                    /\ results[k].tag # "data" =>
                        /\ results[k].tag = "error"
                        /\ results[k].status_code = resp.status_code
                        /\ results[k].error =
                            IF resp.status_code >= 400 THEN "HTTPError" ELSE "JSONDecodeError"

\* C10 witness: an error record with status code 200 next to a decoded body.
C10_Witness ==
    /\ TwapStarted
    /\ Len(results) = 2
    /\ results[1].tag = "error"
    /\ results[1].status_code = 200
    /\ results[2].tag = "data"

====
